---- MODULE Spec2Model ----
(***************************************************************************)
(* kotosume_bot: the embedding index (embeddings.rs), the word-definition  *)
(* cache (dictionary.rs) and the six game handlers (games/*.rs) as a state *)
(* machine.                                                                *)
(*                                                                         *)
(* Words are sequences of one-character strings, so that first character,  *)
(* last character, length and character sets are computed, not assumed.    *)
(* A similarity value (f64 in the source) is kept as the exact rational    *)
(* [n, d] = dot*|dot| / (|a|^2 * |b|^2), the signed square of the cosine:  *)
(* x |-> x*|x| is strictly increasing, so every comparison the source      *)
(* makes between cosines is made here between their signed squares.        *)
(***************************************************************************)
EXTENDS Integers, Sequences, FiniteSets, TLC

VARIABLES
    state,       \* InMemStorage<State>: chat -> session state (state.rs)
    cache,       \* CACHE: cached key -> WordInfo (dictionary.rs:149)
    embeddings,  \* EMBEDDINGS OnceLock: [loaded, map] (embeddings.rs:40)
    last,        \* what the last handler did (observation only)
    tasks,       \* concurrent get_word_details calls: task -> position
    query,       \* one application of a pure function: inputs and result
    disk,        \* the file cache.bin: Missing or its bytes (dictionary.rs:148)
    process      \* the bot process: "running", "exited" or "aborted"

vars == <<state, cache, embeddings, last, tasks, query, disk, process>>

(***************************************************************************)
(* Bounds of the model.                                                    *)
(***************************************************************************)
MaxChain == 4    \* handlers are not explored on chains longer than this
NumTasks == 2    \* concurrent get_word_details calls
CacheCapacity == 1    \* entries the cache holds (CACHE_SIZE, scaled down)
MaxLevel == 3    \* largest n given to contains_at_least_n_chars
MaxRows == 3       \* lines of an embedding source

(***************************************************************************)
(* Characters and words.                                                   *)
(***************************************************************************)
Letters == {"a", "b", "c", "d"}   \* stands for 'a'..='z'

None == "none"

to_lowercase_char(c) ==
    CASE c = "A" -> "a"
      [] c = "B" -> "b"
      [] c = "C" -> "c"
      [] c = "D" -> "d"
      [] OTHER -> c

to_lowercase(w) == [i \in 1..Len(w) |-> to_lowercase_char(w[i])]

Range(s) == {s[i] : i \in 1..Len(s)}

first_char(w) == IF Len(w) = 0 THEN None ELSE w[1]
last_char(w) == IF Len(w) = 0 THEN None ELSE w[Len(w)]
starts_with(w, c) == Len(w) > 0 /\ w[1] = c

w_ab == <<"a", "b">>
w_aa == <<"a", "a">>
w_ba == <<"b", "a">>
w_bab == <<"b", "a", "b">>
w_abc == <<"a", "b", "c">>
w_cab == <<"c", "a", "b">>
w_bac == <<"b", "a", "c">>
w_bad == <<"b", "a", "d">>
w_ca == <<"c", "a">>          \* typed by players, in no index
w_Ba == <<"B", "a">>          \* typed by players, lowercases to w_ba

(***************************************************************************)
(* The embedding source word2vec.txt, parsed: one row per word.            *)
(***************************************************************************)
EmbeddingsFile == <<
    [word |-> w_ab,  vec |-> <<1, 0>>],
    [word |-> w_aa,  vec |-> <<0, 0>>],
    [word |-> w_ba,  vec |-> <<4, 3>>],
    [word |-> w_bab, vec |-> <<3, 4>>],
    [word |-> w_abc, vec |-> <<4, 3>>],
    [word |-> w_cab, vec |-> <<3, 4>>],
    [word |-> w_bac, vec |-> <<0, 1>>],
    [word |-> w_bad, vec |-> <<-1, 0>> ] >>

\* A second source: rows of unequal length, an opposite vector, ties.
EmbeddingsFile2 == <<
    [word |-> w_ab,  vec |-> <<1, 0>>],
    [word |-> w_aa,  vec |-> <<-1, 0>>],
    [word |-> w_ba,  vec |-> <<1, 0, 0>>],
    [word |-> w_bab, vec |-> <<2, 0>>],
    [word |-> w_abc, vec |-> <<-2, 0>>],
    [word |-> w_bac, vec |-> <<3, 0>>],
    [word |-> w_bad, vec |-> <<0, 0>>] >>

\* Words of every length from StartLen to one past max_len: k - 1 times
\* one letter, then the other.
ladder_word(first, other, k) == [i \in 1..k |-> IF i < k THEN first ELSE other]

LadderLengths == 2..9

\* A third source: for each length a word a..ab and a word b..ba.
LadderWords ==
    {ladder_word("a", "b", k) : k \in LadderLengths}
    \cup {ladder_word("b", "a", k) : k \in LadderLengths}

LadderFile ==
    [i \in 1..16 |->
        [word |-> IF i <= 8 THEN ladder_word("a", "b", i + 1)
                  ELSE ladder_word("b", "a", i - 7),
         vec |-> <<1, 0>>]]

\* init, lines 84-92: group the parsed rows by the first character of their
\* word; collecting a bucket into a HashMap keeps the last row of a word.
init(file) ==
    LET rows == Range(file)
        keys == {first_char(r.word) : r \in rows}
        LastRow(w) == CHOOSE i \in DOMAIN file :
                         /\ file[i].word = w
                         /\ \A j \in DOMAIN file : file[j].word = w => j <= i
    IN  [c \in keys |->
            LET grp == {r \in rows : first_char(r.word) = c}
            IN  [w \in {r.word : r \in grp} |-> file[LastRow(w)].vec]]

NotLoaded == [loaded |-> FALSE, map |-> <<>>]

\* get_embeddings: the installed map, installing it on the first call.
get_embeddings(emb, file) ==
    IF emb.loaded THEN emb ELSE [loaded |-> TRUE, map |-> init(file)]

\* A membership test that accepts every word.
is_valid_word_any(word, map) == TRUE

is_valid_word(word, map) ==
    IF Len(word) = 0 THEN FALSE
    ELSE IF first_char(word) \in DOMAIN map
         THEN word \in DOMAIN map[first_char(word)]
         ELSE FALSE

(***************************************************************************)
(* cosine, similarity, get_similar_word.                                   *)
(***************************************************************************)
RECURSIVE SumTo(_, _, _)
SumTo(a, b, i) == IF i = 0 THEN 0 ELSE a[i] * b[i] + SumTo(a, b, i - 1)

Dot(a, b) == SumTo(a, b, Len(a))

Abs(x) == IF x < 0 THEN -x ELSE x

F(n, d) == [n |-> n, d |-> d]
FZero == F(0, 1)
FMinusOne == F(-1, 1)
FGt(x, y) == x.n * y.d > y.n * x.d
FLt(x, y) == x.n * y.d < y.n * x.d
FGe(x, y) == x.n * y.d >= y.n * x.d
\* 0.8 as a signed square: 0.64 = 16/25
F08 == F(16, 25)

\* A cosine that divides whatever the norms are.
cosine_unguarded(a, b) ==
    IF Len(a) # Len(b) THEN FZero
    ELSE F(Dot(a, b) * Abs(Dot(a, b)), Dot(a, a) * Dot(b, b))

cosine(a, b) ==
    IF Len(a) # Len(b) THEN FZero
    ELSE LET dot == Dot(a, b)
             norm_a2 == Dot(a, a)
             norm_b2 == Dot(b, b)
         IN  IF norm_a2 = 0 \/ norm_b2 = 0 THEN FZero
             ELSE F(dot * Abs(dot), norm_a2 * norm_b2)

Ok(v) == [ok |-> TRUE, v |-> v]
Err(e) == [ok |-> FALSE, e |-> e]

similarity_eff(a, a_embed_map, b, b_embed_map) ==
    IF a \notin DOMAIN a_embed_map THEN Err("InvalidWord")
    ELSE IF b \notin DOMAIN b_embed_map THEN Err("InvalidWord")
    ELSE Ok(cosine(a_embed_map[a], b_embed_map[b]))

similarity(a, b, map) ==
    IF Len(a) = 0 \/ Len(b) = 0 THEN Err("InvalidWord")
    ELSE IF first_char(a) \notin DOMAIN map THEN Err("MissingData")
    ELSE IF first_char(b) \notin DOMAIN map THEN Err("MissingData")
    ELSE IF a \notin DOMAIN map[first_char(a)] THEN Err("InvalidWord")
    ELSE IF b \notin DOMAIN map[first_char(b)] THEN Err("InvalidWord")
    ELSE Ok(cosine(map[first_char(a)][a], map[first_char(b)][b]))

\* similarity(..).unwrap_or(0.0)
similarity_or_zero(a, b, map) ==
    LET r == similarity(a, b, map) IN IF r.ok THEN r.v ELSE FZero

\* The orders in which a HashMap may hand out the keys S.
Perms(S) ==
    {s \in [1..Cardinality(S) -> S] :
        \A i, j \in 1..Cardinality(S) : i # j => s[i] # s[j]}

\* BestOf with the comparison reversed: keeps the least similar candidate.
BestOfMin(order, i, word, f_map, s_map, best_similarity, best_word) ==
    IF Len(order) = 0 THEN best_word
    ELSE CHOOSE w \in Range(order) :
            \A x \in Range(order) :
                ~FLt(similarity_eff(word, f_map, x, s_map).v,
                     similarity_eff(word, f_map, w, s_map).v)

\* The loop of get_similar_word over the candidates in iteration order.
RECURSIVE BestOf(_, _, _, _, _, _, _)
BestOf(order, i, word, f_map, s_map, best_similarity, best_word) ==
    IF i > Len(order) THEN best_word
    ELSE LET sim == similarity_eff(word, f_map, order[i], s_map)
         IN  IF sim.ok /\ FGt(sim.v, best_similarity)
             THEN BestOf(order, i + 1, word, f_map, s_map, sim.v, order[i])
             ELSE BestOf(order, i + 1, word, f_map, s_map,
                         best_similarity, best_word)

\* Candidates without the filter: the predicate is not applied.
CandidatesUnfiltered(s_map, PSet) == DOMAIN s_map

\* s_map.keys().filter(|x| predicate(x))
Candidates(s_map, PSet) == {x \in DOMAIN s_map : x \in PSet}

\* get_similar_word(word, starting_char, predicate): the set of results it
\* can return, one per iteration order of the bucket. PSet is the set of
\* words on which the predicate is true.
get_similar_word(word, starting_char, PSet, map) ==
    IF Len(word) = 0 THEN {Err("InvalidWord")}
    ELSE IF first_char(word) \notin DOMAIN map THEN {Err("MissingData")}
    ELSE IF word \notin DOMAIN map[first_char(word)] THEN {Err("InvalidWord")}
    ELSE IF starting_char \notin DOMAIN map THEN {Err("MissingData")}
    ELSE LET f_map == map[first_char(word)]
             s_map == map[starting_char]
             result == Candidates(s_map, PSet)
         IN  IF result = {} THEN {Err("MissingData")}
             ELSE { LET best == BestOf(order, 1, word, f_map, s_map,
                                       FMinusOne, <<>>)
                    IN  IF best = <<>> THEN Err("MissingData") ELSE Ok(best)
                    : order \in Perms(result) }

(***************************************************************************)
(* The dictionary resolver (Merriam-Webster collegiate API) and WordInfo.  *)
(***************************************************************************)
Some(v) == [some |-> TRUE, v |-> v]
Nothing == [some |-> FALSE]

(***************************************************************************)
(* Reading the embedding source. A source is unreadable or has lines (the  *)
(* content after replace("\r", "") and lines()); a line is a sequence of   *)
(* characters. Numbers are written as decimal integers.                    *)
(***************************************************************************)
Unreadable == [readable |-> FALSE, lines |-> <<>>]
Readable(lines) == [readable |-> TRUE, lines |-> lines]

is_whitespace(ch) == ch \in {" ", "\t"}

RECURSIVE SplitFrom(_, _, _)
SplitFrom(line, cur, out) ==
    IF line = <<>>
    THEN IF cur = <<>> THEN out ELSE Append(out, cur)
    ELSE IF is_whitespace(Head(line))
         THEN SplitFrom(Tail(line), <<>>,
                        IF cur = <<>> THEN out ELSE Append(out, cur))
         ELSE SplitFrom(Tail(line), Append(cur, Head(line)), out)

\* line.split_whitespace()
split_whitespace(line) == SplitFrom(line, <<>>, <<>>)

DigitChars == {"0", "1", "2", "3", "4", "5", "6", "7", "8", "9"}

DigitValue(ch) ==
    CASE ch = "0" -> 0 [] ch = "1" -> 1 [] ch = "2" -> 2 [] ch = "3" -> 3
      [] ch = "4" -> 4 [] ch = "5" -> 5 [] ch = "6" -> 6 [] ch = "7" -> 7
      [] ch = "8" -> 8 [] ch = "9" -> 9

RECURSIVE DecimalValue(_)
DecimalValue(ds) ==
    IF ds = <<>> THEN 0
    ELSE 10 * DecimalValue(SubSeq(ds, 1, Len(ds) - 1)) + DigitValue(ds[Len(ds)])

\* x.parse::<f64>() of a token made of an optional sign and digits; every
\* other token of the model's alphabet is not a float literal.
parse_f64(tok) ==
    LET signed == Len(tok) > 0 /\ tok[1] \in {"-", "+"}
        body == IF signed THEN Tail(tok) ELSE tok
    IN  IF body = <<>> \/ \E i \in 1..Len(body) : body[i] \notin DigitChars
        THEN Err("invalid float literal")
        ELSE Ok(IF signed /\ tok[1] = "-" THEN 0 - DecimalValue(body)
                ELSE DecimalValue(body))

\* The closure of filter_map, lines 60-82: None for a line without a word
\* and for a line with a token that does not parse.
parse_line(line) ==
    LET toks == split_whitespace(line)
    IN  IF toks = <<>> THEN Nothing
        ELSE IF \E i \in 2..Len(toks) : ~parse_f64(toks[i]).ok THEN Nothing
        ELSE Some([word |-> toks[1],
                   vec |-> [i \in 1..(Len(toks) - 1) |->
                               parse_f64(toks[i + 1]).v]])

\* A loader that gives up at the first line it cannot use.
parse_lines_abort(lines) ==
    LET bad == {i \in 1..Len(lines) : ~parse_line(lines[i]).some}
        n == IF bad = {} THEN Len(lines)
             ELSE (CHOOSE i \in bad : \A j \in bad : i <= j) - 1
    IN  [i \in 1..n |-> parse_line(lines[i]).v]

\* lines().filter_map(..): the rows of the lines that gave Some, in order.
parse_lines(lines) ==
    LET kept == SelectSeq(lines, LAMBDA l : parse_line(l).some)
    IN  [i \in 1..Len(kept) |-> parse_line(kept[i]).v]

\* init(file_name), lines 44-100: IoError for a file that is missing or
\* cannot be read, else the map of its rows.
init_source(src) ==
    IF ~src.readable THEN Err("IoError")
    ELSE Ok(init(parse_lines(src.lines)))

\* get_embeddings over a source: the result handed to the caller and the
\* OnceLock after the call.
get_embeddings_source(emb, src) ==
    IF emb.loaded THEN [res |-> Ok(emb.map), emb |-> emb]
    ELSE LET r == init_source(src)
         IN  IF r.ok
             THEN [res |-> Ok(r.v), emb |-> [loaded |-> TRUE, map |-> r.v]]
             ELSE [res |-> r, emb |-> emb]

\* is_valid_word, lines 116-132, with the Err arm of get_embeddings.
is_valid_word_source(word, emb, src) ==
    IF Len(word) = 0 THEN [res |-> FALSE, emb |-> emb]
    ELSE LET g == get_embeddings_source(emb, src)
         IN  [res |-> IF g.res.ok THEN is_valid_word(word, g.res.v)
                      ELSE FALSE,
              emb |-> g.emb]

Entry(fl, shortdef, stems) ==
    [fl |-> fl, shortdef |-> shortdef, stems |-> stems]

\* What the resolver answers for a word when it answers.
MwAnswer(word) ==
    CASE word = w_ab  -> <<Entry(Some("noun"), Some(<<"d1">>), <<w_ab>>)>>
      [] word = w_aa  -> <<Entry(Nothing, Nothing, <<w_aa>>)>>
      [] word = w_ba  -> <<Entry(Some("verb"), Some(<<"d1">>), <<w_ba, w_bab>>)>>
      [] word = w_bab -> <<Entry(Some("verb"), Some(<<"d1">>), <<w_ba, w_bab>>),
                          Entry(Some("noun"), Nothing, <<w_bab>>)>>
      [] word = w_abc -> <<Entry(Nothing, Some(<<"d1", "d2">>), <<w_abc>>)>>
      [] word = w_cab -> <<Entry(Some("noun"), Some(<<"d1">>), <<w_cab>>)>>
      [] word = w_bac -> <<Entry(Some("noun"), Some(<<>>), <<w_bac>>)>>
      [] word = w_bad -> <<Entry(Some("adj"), Some(<<"d1">>), <<w_bad>>)>>
      [] word \in LadderWords /\ Len(word) > 2 ->
           <<Entry(Some("noun"), Some(<<"d1">>), <<word>>)>>
      [] OTHER -> <<>>

\* client.collegiate_definition(word): an error or the answer.
\* The words on which the resolver can also fail (a transient error).
Unreliable == {w_abc}

collegiate_definition(word) ==
    IF word \in Unreliable THEN {Err("ApiError"), Ok(MwAnswer(word))}
    ELSE {Ok(MwAnswer(word))}

RECURSIVE FilterMapDefs(_, _)
FilterMapDefs(def, i) ==
    IF i > Len(def) THEN <<>>
    ELSE IF def[i].shortdef.some
         THEN <<[functional_label |->
                     IF def[i].fl.some THEN def[i].fl.v ELSE "",
                 definitions |-> def[i].shortdef.v]>>
              \o FilterMapDefs(def, i + 1)
         ELSE FilterMapDefs(def, i + 1)

RECURSIVE FlatMapStems(_, _)
FlatMapStems(def, i) ==
    IF i > Len(def) THEN <<>>
    ELSE def[i].stems \o FlatMapStems(def, i + 1)

\* The WordInfo built without the test for an empty list of definitions.
ProcessDefinitions_unchecked(word, def) ==
    Ok([word |-> word, stems |-> FlatMapStems(def, 1),
        defs |-> FilterMapDefs(def, 1)])

\* get_word_details after the resolver answered `def`: the WordInfo, or
\* NotFound when no record has a short definition.
ProcessDefinitions(word, def) ==
    LET defs == FilterMapDefs(def, 1)
    IN  IF defs = <<>> THEN Err("NotFound")
        ELSE Ok([word |-> word, stems |-> FlatMapStems(def, 1), defs |-> defs])

\* cache.insert(key, value) on a cache built with max_capacity(CACHE_SIZE):
\* past the capacity the policy drops one entry, the new one or an old one.
CacheInsert(c, key, value) ==
    LET full == (key :> value) @@ c
    IN  IF Cardinality(DOMAIN full) <= CacheCapacity THEN {full}
        ELSE {[w \in DOMAIN full \ {e} |-> full[w]] : e \in DOMAIN full}

Res(r, c, api) == [res |-> r, cache |-> c, api |-> api]

\* A lookup that finds nothing.
cache_get_absent(c, word) == Nothing

\* cache.get(word)
cache_get(c, word) == IF word \in DOMAIN c THEN Some(c[word]) ELSE Nothing

\* get_word_details(word), run to completion: the set of its outcomes, each
\* the result, the cache afterwards and the words sent to the resolver.
get_word_details(word, c, map) ==
    IF cache_get(c, word).some THEN {Res(Ok(cache_get(c, word).v), c, <<>>)}
    ELSE IF ~is_valid_word(word, map) THEN {Res(Err("NotFound"), c, <<>>)}
    ELSE UNION {
           IF d.ok
           THEN LET r == ProcessDefinitions(word, d.v)
                IN  IF r.ok
                    THEN {Res(r, c2, <<word>>) :
                             c2 \in CacheInsert(c, word, r.v)}
                    ELSE {Res(r, c, <<word>>)}
           ELSE {Res(Err("ApiError"), c, <<word>>)}
           : d \in collegiate_definition(word) }

(***************************************************************************)
(* The snapshot of the cache on disk.  bincode's standard configuration    *)
(* writes a length before the content of a string or of a vector and a     *)
(* struct field by field in declaration order; the file is a sequence of   *)
(* length units and content units.                                         *)
(***************************************************************************)
\* cache.bin: absent, or present with the bytes it holds.
Missing == [exists |-> FALSE, bytes |-> <<>>]
File(bytes) == [exists |-> TRUE, bytes |-> bytes]

U(n) == [len |-> n]
B(ch) == [byte |-> ch]
IsU(unit) == "len" \in DOMAIN unit
IsB(unit) == "byte" \in DOMAIN unit

RECURSIVE Concat(_)
Concat(seqs) == IF seqs = <<>> THEN <<>> ELSE Head(seqs) \o Concat(Tail(seqs))

\* A functional label or a definition is a string the model keeps whole.
text_to_string(t) == IF t = "" THEN <<>> ELSE <<t>>
string_to_text(s) == IF s = <<>> THEN "" ELSE s[1]

\* A string written without its length.
encode_string_bare(s) == [i \in 1..Len(s) |-> B(s[i])]

\* String::encode
encode_string(s) == <<U(Len(s))>> \o [i \in 1..Len(s) |-> B(s[i])]

\* Vec<T>::encode, given the encodings of the elements
encode_vec(items) == <<U(Len(items))>> \o Concat(items)

\* derive(Encode) for Def: definitions, functional_label
encode_def(d) ==
    encode_vec([i \in 1..Len(d.definitions) |->
                   encode_string(text_to_string(d.definitions[i]))])
    \o encode_string(text_to_string(d.functional_label))

\* derive(Encode) for WordInfo: word, stems, defs
encode_word_info(v) ==
    encode_string(v.word)
    \o encode_vec([i \in 1..Len(v.stems) |-> encode_string(v.stems[i])])
    \o encode_vec([i \in 1..Len(v.defs) |-> encode_def(v.defs[i])])

\* derive(Encode) for CacheEntry: key, value
encode_cache_entry(e) == encode_string(e.key) \o encode_word_info(e.value)

\* bincode::encode_into_std_write(&data, ...) for data: Vec<CacheEntry>
encode_into_std_write(data) ==
    encode_vec([i \in 1..Len(data) |-> encode_cache_entry(data[i])])

\* A decoder's result: a failure, or the value and the units left.
DecodeError == [ok |-> FALSE]
Decoded(v, rest) == [ok |-> TRUE, v |-> v, rest |-> rest]

\* `r?` and then Rest: the failure of r, or Rest applied to what r decoded.
AndThen(r, Rest(_)) ==
    CHOOSE out \in {IF x.ok THEN Rest(x) ELSE DecodeError : x \in {r}} : TRUE

decode_len(b) ==
    IF b # <<>> /\ IsU(b[1]) THEN Decoded(b[1].len, Tail(b)) ELSE DecodeError

\* String::decode
decode_string(b) ==
    AndThen(decode_len(b), LAMBDA n :
        IF Len(n.rest) < n.v THEN DecodeError
        ELSE IF \E i \in 1..n.v : ~IsB(n.rest[i]) THEN DecodeError
        ELSE Decoded([i \in 1..n.v |-> n.rest[i].byte],
                     SubSeq(n.rest, n.v + 1, Len(n.rest))))

RECURSIVE decode_strings(_, _)
decode_strings(n, b) ==
    IF n = 0 THEN Decoded(<<>>, b)
    ELSE AndThen(decode_string(b), LAMBDA h :
            AndThen(decode_strings(n - 1, h.rest), LAMBDA t :
                Decoded(<<h.v>> \o t.v, t.rest)))

\* Vec<String>::decode
decode_vec_string(b) ==
    AndThen(decode_len(b), LAMBDA n : decode_strings(n.v, n.rest))

\* derive(Decode) for Def
decode_def(b) ==
    AndThen(decode_vec_string(b), LAMBDA ds :
        AndThen(decode_string(ds.rest), LAMBDA fl :
            Decoded([functional_label |-> string_to_text(fl.v),
                     definitions |-> [i \in 1..Len(ds.v) |->
                                         string_to_text(ds.v[i])]],
                    fl.rest)))

RECURSIVE decode_defs(_, _)
decode_defs(n, b) ==
    IF n = 0 THEN Decoded(<<>>, b)
    ELSE AndThen(decode_def(b), LAMBDA h :
            AndThen(decode_defs(n - 1, h.rest), LAMBDA t :
                Decoded(<<h.v>> \o t.v, t.rest)))

\* derive(Decode) for WordInfo
decode_word_info(b) ==
    AndThen(decode_string(b), LAMBDA word :
        AndThen(decode_vec_string(word.rest), LAMBDA stems :
            AndThen(decode_len(stems.rest), LAMBDA n :
                AndThen(decode_defs(n.v, n.rest), LAMBDA defs :
                    Decoded([word |-> word.v, stems |-> stems.v,
                             defs |-> defs.v],
                            defs.rest)))))

\* derive(Decode) for CacheEntry
decode_cache_entry(b) ==
    AndThen(decode_string(b), LAMBDA key :
        AndThen(decode_word_info(key.rest), LAMBDA value :
            Decoded([key |-> key.v, value |-> value.v], value.rest)))

RECURSIVE decode_cache_entries(_, _)
decode_cache_entries(n, b) ==
    IF n = 0 THEN Decoded(<<>>, b)
    ELSE AndThen(decode_cache_entry(b), LAMBDA h :
            AndThen(decode_cache_entries(n - 1, h.rest), LAMBDA t :
                Decoded(<<h.v>> \o t.v, t.rest)))

\* bincode::decode_from_reader for Vec<CacheEntry>
decode_from_reader(b) ==
    AndThen(decode_len(b), LAMBDA n : decode_cache_entries(n.v, n.rest))

\* The entries of `entries` from the i-th on, inserted one after the other.
RECURSIVE InsertEntries(_, _, _)
InsertEntries(c, entries, i) ==
    IF i > Len(entries) THEN {c}
    ELSE UNION {InsertEntries(c2, entries, i + 1) :
                   c2 \in CacheInsert(c, entries[i].key, entries[i].value)}

Loaded(c, log) == [cache |-> c, log |-> log, ok |-> TRUE]

\* An init_cache that fails when the file cannot be decoded.
init_cache_strict(d) ==
    IF d.exists /\ decode_from_reader(d.bytes).ok
    THEN {Loaded(c, "loaded") :
             c \in InsertEntries(<<>>, decode_from_reader(d.bytes).v, 1)}
    ELSE {[cache |-> <<>>, log |-> "failed", ok |-> FALSE]}

\* init_cache(): the cache it installs and what it logs, from the file d.
init_cache(d) ==
    IF ~d.exists THEN {Loaded(<<>>, "no_file")}
    ELSE LET entries_result == decode_from_reader(d.bytes)
         IN  IF entries_result.ok
             THEN {Loaded(c, "loaded") :
                      c \in InsertEntries(<<>>, entries_result.v, 1)}
             ELSE {Loaded(<<>>, "load_failed")}

\* cache.iter() collected: the entries in any order.
cache_iter(c) ==
    {[i \in 1..Len(order) |-> [key |-> order[i], value |-> c[order[i]]]] :
        order \in Perms(DOMAIN c)}

Saved(res, d) == [res |-> res, disk |-> d]

\* A write that stopped early: at the start, half way or one unit short.
Partial(b) == {SubSeq(b, 1, n) : n \in {0, Len(b) \div 2, Len(b) - 1}}

\* save_cache(cache, "cache.bin"): its result and the file afterwards.
save_cache(c, d) ==
    {Saved(Err("IoError"), d)}
    \cup UNION {
           {Saved(Ok("saved"), File(encode_into_std_write(data)))}
           \cup {Saved(Err("CacheError"), File(b)) :
                    b \in Partial(encode_into_std_write(data))}
           : data \in cache_iter(c) }

\* get_random_word(predicate, start_char): PSet is the set of words on
\* which the predicate is true; start_char is None or a character.
get_random_word(PSet, start_char, c, map) ==
    UNION { IF char \notin DOMAIN map THEN {Res(Err("NotFound"), c, <<>>)}
            ELSE LET matching == {k \in DOMAIN map[char] : k \in PSet}
                 IN  IF matching = {} THEN {Res(Err("NotFound"), c, <<>>)}
                     ELSE UNION {get_word_details(word, c, map) :
                                    word \in matching}
            : char \in IF start_char = None THEN Letters ELSE {start_char} }

\* main.rs contains_any: some element of vec2 is in vec1.
contains_any(vec1, vec2) == \E s \in vec2 : s \in vec1

(***************************************************************************)
(* Helpers of the game handlers.                                           *)
(***************************************************************************)
\* A test that finds no forbidden letter in any word.
contains_none(s, forbidden_chars) == FALSE

\* forbidden_letters.rs contains_forbidden_chars
contains_forbidden_chars(s, forbidden_chars) ==
    \E i \in 1..Len(s) : s[i] \in Range(forbidden_chars)

\* scrambled.rs contains_at_least_n_chars: the loop over the characters of s
RECURSIVE FoundLoop(_, _, _, _, _)
FoundLoop(char_set, s, i, found, n) ==
    IF i > Len(s) THEN FALSE
    ELSE IF s[i] \in char_set
         THEN IF Cardinality(found \cup {s[i]}) >= n THEN TRUE
              ELSE FoundLoop(char_set, s, i + 1, found \cup {s[i]}, n)
         ELSE FoundLoop(char_set, s, i + 1, found, n)

contains_at_least_n_chars(chars, s, n) == FoundLoop(Range(chars), s, 1, {}, n)

\* chain.iter().flat_map(|x| x.stems.clone()), as the set `contains` reads
used_stems_of(chain) == UNION {Range(chain[i].stems) : i \in 1..Len(chain)}

AllKeys(map) == UNION {DOMAIN map[c] : c \in DOMAIN map}

\* What a get_bot_response call has done besides its result: the results of
\* its get_similar_word searches and the candidates it passed to
\* get_word_details, both in order.
NoTrace == [searches |-> <<>>, resolved |-> <<>>]

BotOut(res, c, tr) == [res |-> res, cache |-> c, tr |-> tr]

\* A search failure that gives up at once, whatever the attempt number.
GiveUpAlways(n, max_attempts) == TRUE

\* `if attempts == MAX_ATTEMPTS { return Err(..) }` after a failed search
GiveUp(n, max_attempts) == n = max_attempts

\* used_words.extend(details.stems.clone())
AfterCollision(cfg, used_words, info) == used_words \cup Range(info.stems)

\* On a resolution error: synonym_string pushes the word (375), the other
\* variants only `continue`.
AfterResolveError(cfg, used_words, word) ==
    IF cfg.push_on_err THEN used_words \cup {word} ELSE used_words

\* The retry loop shared by the six get_bot_response functions. cfg holds
\* what differs: max_attempts, starting_char, eligible (the words on which
\* the structural part of the predicate is true), stem_check (the
\* contains_any test on the resolved word) and push_on_err.
\* A loop test that lets one more iteration in.
attempts_left_one_more(attempts, max_attempts) == attempts <= max_attempts

\* `while attempts < MAX_ATTEMPTS`
attempts_left(attempts, max_attempts) == attempts < max_attempts

RECURSIVE BotLoop(_, _, _, _, _, _, _)
BotLoop(cfg, player_word, used_words, attempts, c, map, tr) ==
    IF ~attempts_left(attempts, cfg.max_attempts)
    THEN {BotOut(Err("NoValidWords"), c, tr)}
    ELSE
      LET n == attempts + 1
          PSet == {x \in cfg.eligible : x \notin used_words}
      IN  UNION {
            LET tr1 == [tr EXCEPT !.searches = Append(@, r)]
            IN  IF r.ok
                THEN UNION {
                       LET tr2 == [tr1 EXCEPT !.resolved = Append(@, r.v)]
                       IN  IF o.res.ok
                           THEN IF cfg.stem_check
                                   /\ contains_any(used_words,
                                                   Range(o.res.v.stems))
                                THEN BotLoop(cfg, player_word,
                                        AfterCollision(cfg, used_words, o.res.v),
                                        n, o.cache, map, tr2)
                                ELSE {BotOut(o.res, o.cache, tr2)}
                           ELSE BotLoop(cfg, player_word,
                                   AfterResolveError(cfg, used_words, r.v),
                                   n, o.cache, map, tr2)
                       : o \in get_word_details(r.v, c, map) }
                ELSE IF GiveUp(n, cfg.max_attempts)
                     THEN {BotOut(Err("Embedding"), c, tr1)}
                     ELSE BotLoop(cfg, player_word, used_words, n, c, map, tr1)
            : r \in get_similar_word(player_word, cfg.starting_char, PSet, map) }

BotCfg(max_attempts, starting_char, eligible, stem_check, push_on_err) ==
    [max_attempts |-> max_attempts, starting_char |-> starting_char,
     eligible |-> eligible, stem_check |-> stem_check,
     push_on_err |-> push_on_err]

WordChainMaxAttempts == 3
AlphabetSprintMaxAttempts == 3
ScrambledMaxAttempts == 3
WordLadderMaxAttempts == 3
SynonymMaxAttempts == 5
ForbiddenMaxAttempts == 5

word_chain_get_bot_response(player_word, used_words, c, map) ==
    IF Len(player_word) = 0 THEN {BotOut(Err("InvalidInput"), c, NoTrace)}
    ELSE BotLoop(BotCfg(WordChainMaxAttempts, last_char(player_word),
                        AllKeys(map), TRUE, FALSE),
                 player_word, used_words, 0, c, map, NoTrace)

\* A bot that answers in the bucket of the last letter of the player's
\* word, as the chain-style variants do.
alphabet_sprint_get_bot_response_chained(player_word, used_words, alphabet, c, map) ==
    BotLoop(BotCfg(AlphabetSprintMaxAttempts, last_char(player_word),
                   AllKeys(map), FALSE, FALSE),
            player_word, used_words, 0, c, map, NoTrace)

alphabet_sprint_get_bot_response(player_word, used_words, alphabet, c, map) ==
    BotLoop(BotCfg(AlphabetSprintMaxAttempts, alphabet, AllKeys(map),
                   FALSE, FALSE),
            player_word, used_words, 0, c, map, NoTrace)

scrambled_get_bot_response(player_word, used_words, level, c, map) ==
    IF Len(player_word) = 0 THEN {BotOut(Err("InvalidInput"), c, NoTrace)}
    ELSE BotLoop(BotCfg(ScrambledMaxAttempts, last_char(player_word),
                        {x \in AllKeys(map) :
                            contains_at_least_n_chars(player_word, x, level)},
                        FALSE, FALSE),
                 player_word, used_words, 0, c, map, NoTrace)

\* The similarity part of the predicate of synonym-string's bot search.
synonym_string_eligible(player_word, map) ==
    {x \in AllKeys(map) : FGt(similarity_or_zero(player_word, x, map), F08)}

synonym_string_get_bot_response(player_word, used_words, c, map) ==
    IF Len(player_word) = 0 THEN {BotOut(Err("InvalidInput"), c, NoTrace)}
    ELSE BotLoop(BotCfg(SynonymMaxAttempts, last_char(player_word),
                        synonym_string_eligible(player_word, map),
                        TRUE, TRUE),
                 player_word, used_words, 0, c, map, NoTrace)

word_ladder_get_bot_response(player_word, used_words, target_length, c, map) ==
    IF Len(player_word) = 0 THEN {BotOut(Err("InvalidInput"), c, NoTrace)}
    ELSE BotLoop(BotCfg(WordLadderMaxAttempts, last_char(player_word),
                        {x \in AllKeys(map) : Len(x) = target_length},
                        FALSE, FALSE),
                 player_word, used_words, 0, c, map, NoTrace)

forbidden_letters_get_bot_response(player_word, used_words, forbidden_letters, c, map) ==
    IF Len(player_word) = 0 THEN {BotOut(Err("InvalidInput"), c, NoTrace)}
    ELSE BotLoop(BotCfg(ForbiddenMaxAttempts, last_char(player_word),
                        {x \in AllKeys(map) :
                            ~contains_forbidden_chars(x, forbidden_letters)},
                        TRUE, FALSE),
                 player_word, used_words, 0, c, map, NoTrace)

(***************************************************************************)
(* Session states (state.rs) and the handlers of the six variants. The     *)
(* chat transport is taken to deliver every message: a handler runs to its *)
(* end.                                                                    *)
(***************************************************************************)
Start == [tag |-> "Start"]

WordChain(chain, curr_char) ==
    [tag |-> "WordChain", chain |-> chain, curr_char |-> curr_char]

AlphabetSprint(alphabet, words) ==
    [tag |-> "AlphabetSprint", alphabet |-> alphabet, words |-> words]

LastLetterScramble(level, chain, curr_char) ==
    [tag |-> "LastLetterScramble", level |-> level, chain |-> chain,
     curr_char |-> curr_char]

SynonymString(chain, curr_char) ==
    [tag |-> "SynonymString", chain |-> chain, curr_char |-> curr_char]

WordLengthLadder(curr_len, max_len, chain, curr_char) ==
    [tag |-> "WordLengthLadder", curr_len |-> curr_len, max_len |-> max_len,
     chain |-> chain, curr_char |-> curr_char]

ForbiddenLetters(forbidden_letters, chain, curr_char) ==
    [tag |-> "ForbiddenLetters", forbidden_letters |-> forbidden_letters,
     chain |-> chain, curr_char |-> curr_char]

\* The word list of a session: `words` in AlphabetSprint, `chain` elsewhere.
ChainOf(s) ==
    IF s.tag = "Start" THEN <<>>
    ELSE IF s.tag = "AlphabetSprint" THEN s.words ELSE s.chain

\* The letter a submission must start with: the alphabet in AlphabetSprint,
\* curr_char elsewhere (last_letter_scramble recomputes it from the chain).
CurrCharOf(s) ==
    IF s.tag = "AlphabetSprint" THEN s.alphabet
    ELSE IF s.tag = "LastLetterScramble"
         THEN last_char(s.chain[Len(s.chain)].word)
         ELSE s.curr_char

\* The session with a new word list and next letter, other fields kept.
WithChain(s, chain, next_char) ==
    IF s.tag = "AlphabetSprint" THEN AlphabetSprint(s.alphabet, chain)
    ELSE [s EXCEPT !.chain = chain, !.curr_char = next_char]

NoBot == [called |-> FALSE]

\* No get_bot_response call: the handler started the game of the button.
Selected(game) == [called |-> FALSE, game |-> game]

BotInfo(variant, player_word, b) ==
    [called |-> TRUE, variant |-> variant, player_word |-> player_word,
     ok |-> b.res.ok, searches |-> b.tr.searches, resolved |-> b.tr.resolved]

\* What one handler run leaves behind: the new session state, the cache,
\* and what its get_bot_response call did.
HOut(outcome, st, c, bot) ==
    [outcome |-> outcome, state |-> st, cache |-> c, bot |-> bot]

\* A rejection that also ends the game.
on_reject_reset(s) == Start

\* Every rejection path is `send_message(..); return Ok(())`: no
\* dialogue.update.
on_reject(s) == s

\* A failed bot response that keeps the game going with the player's word.
on_bot_error_keep(s, chain) == WithChain(s, chain, CurrCharOf(s))

\* `Err(e) => { ..; dialogue.update(Start) }` after get_bot_response
on_bot_error(s, chain) == Start

Rejected(why, s, c) == HOut(why, on_reject(s), c, NoBot)

\* The get_bot_response call of the variant's process_player_word.
get_bot_response(s, word, updated_stems, c, map) ==
    CASE s.tag = "WordChain" ->
           word_chain_get_bot_response(word, updated_stems, c, map)
      [] s.tag = "AlphabetSprint" ->
           alphabet_sprint_get_bot_response(word, updated_stems, s.alphabet,
                                            c, map)
      [] s.tag = "LastLetterScramble" ->
           scrambled_get_bot_response(word, updated_stems, s.level, c, map)
      [] s.tag = "SynonymString" ->
           synonym_string_get_bot_response(word, updated_stems, c, map)
      [] s.tag = "WordLengthLadder" ->
           word_ladder_get_bot_response(word, updated_stems, s.curr_len + 1,
                                        c, map)
      [] s.tag = "ForbiddenLetters" ->
           forbidden_letters_get_bot_response(word, updated_stems,
                                              s.forbidden_letters, c, map)

\* An update that leaves the session as it was.
AfterBotWordKeep(s, chain, next_char) == s

\* dialogue.update(..) after a bot response: word-ladder also steps curr_len.
AfterBotWord(s, chain, next_char) ==
    IF s.tag = "WordLengthLadder"
    THEN WordLengthLadder(s.curr_len + 1, s.max_len, chain, next_char)
    ELSE WithChain(s, chain, next_char)

\* A ladder without an end.
reached_max_len_never(s) == FALSE

\* word_ladder.rs `if curr_len >= max_len`, after the player's word is pushed.
reached_max_len(s) == s.tag = "WordLengthLadder" /\ s.curr_len >= s.max_len

\* process_player_word from `let used_stems` on: resolve the word, refuse a
\* used stem, push the word, ask the bot, update the dialogue. The six
\* variants share this text; word-ladder adds the max_len test.
PlayTurn(s, word, c, map) ==
    LET chain == ChainOf(s)
        used_stems == used_stems_of(chain)
    IN  UNION {
              IF ~o.res.ok
              THEN {Rejected("not_recognised", s, o.cache)}
              ELSE IF contains_any(used_stems, Range(o.res.v.stems))
              THEN {Rejected("already_used", s, o.cache)}
              ELSE
                LET updated_stems == used_stems \cup {word}
                    chain1 == Append(chain, o.res.v)
                IN  IF reached_max_len(s)
                    THEN {HOut("max_len", Start, o.cache, NoBot)}
                    ELSE { IF b.res.ok
                           THEN HOut("accepted",
                                     AfterBotWord(s, Append(chain1, b.res.v),
                                                  last_char(b.res.v.word)),
                                     b.cache, BotInfo(s.tag, word, b))
                           ELSE HOut("bot_failed", on_bot_error(s, chain1),
                                     b.cache, BotInfo(s.tag, word, b))
                           : b \in get_bot_response(s, word, updated_stems,
                                                    o.cache, map) }
          : o \in get_word_details(word, c, map) }

\* The variant's own test between the starting letter and the lookup:
\* the reason of the rejection, or None.
VariantCheck(s, word, map) ==
    CASE s.tag = "LastLetterScramble" ->
           IF ~contains_at_least_n_chars(word, s.chain[Len(s.chain)].word,
                                         s.level)
           THEN "too_few_shared" ELSE None
      [] s.tag = "SynonymString" ->
           IF FLt(similarity_or_zero(word, s.chain[Len(s.chain)].word, map),
                  F08)
           THEN "not_similar" ELSE None
      [] s.tag = "ForbiddenLetters" ->
           IF contains_forbidden_chars(word, s.forbidden_letters)
           THEN "forbidden_letter" ELSE None
      [] OTHER -> None

\* process_player_word: text is the sequence of whitespace-delimited tokens.
process_player_word(text, s, c, map) ==
    IF Len(text) = 0 THEN {Rejected("no_token", s, c)}
    ELSE IF Len(text) > 1 THEN {Rejected("many_tokens", s, c)}
    ELSE
      LET word == to_lowercase(text[1])
      IN  IF s.tag = "WordLengthLadder"
             /\ (~starts_with(word, s.curr_char) \/ Len(word) # s.curr_len)
          THEN {Rejected("wrong_start_or_length", s, c)}
          ELSE IF ~starts_with(word, CurrCharOf(s))
          THEN {Rejected("wrong_start", s, c)}
          ELSE IF VariantCheck(s, word, map) # None
          THEN {Rejected(VariantCheck(s, word, map), s, c)}
          ELSE PlayTurn(s, word, c, map)

\* The predicate of the get_random_word call in skip_turn and provide_hint,
\* as the set of words on which it is true.
SkipPSet(s, map) ==
    LET used_stems == used_stems_of(ChainOf(s))
        prev_word == ChainOf(s)[Len(ChainOf(s))].word
    IN  CASE s.tag \in {"WordChain", "AlphabetSprint"} ->
               {w \in AllKeys(map) : w \notin used_stems}
          [] s.tag = "LastLetterScramble" ->
               {w \in AllKeys(map) :
                   /\ starts_with(w, CurrCharOf(s))
                   /\ contains_at_least_n_chars(w, prev_word, s.level)
                   /\ w \notin used_stems}
          [] s.tag = "SynonymString" ->
               {w \in AllKeys(map) :
                   /\ FGt(similarity_or_zero(w, prev_word, map), F08)
                   /\ w \notin used_stems}
          [] s.tag = "WordLengthLadder" ->
               {w \in AllKeys(map) : Len(w) = s.curr_len}
          [] s.tag = "ForbiddenLetters" ->
               {w \in AllKeys(map) :
                   /\ ~contains_forbidden_chars(w, s.forbidden_letters)
                   /\ w \notin used_stems}

\* A skip that draws from the bucket of a random letter in every variant.
SkipStartCharNone(s) == None

\* Its start_char argument; scrambled.rs passes none.
SkipStartChar(s) ==
    IF s.tag = "LastLetterScramble" THEN None ELSE CurrCharOf(s)

\* skip_turn: a random word takes the player's turn; in word-ladder the bot
\* then answers it as it answers a player word.
skip_turn(s, c, map) ==
    LET chain == ChainOf(s)
        used_stems == used_stems_of(chain)
    IN  UNION {
              IF ~o.res.ok THEN {HOut("skip_failed", Start, o.cache, NoBot)}
              ELSE IF s.tag = "WordLengthLadder"
              THEN { IF b.res.ok
                     THEN HOut("skipped",
                               AfterBotWord(s,
                                   Append(Append(chain, o.res.v), b.res.v),
                                   last_char(b.res.v.word)),
                               b.cache, BotInfo(s.tag, o.res.v.word, b))
                     ELSE HOut("skip_failed", Start, b.cache,
                               BotInfo(s.tag, o.res.v.word, b))
                     : b \in word_ladder_get_bot_response(o.res.v.word,
                                used_stems, s.curr_len + 1, o.cache, map) }
              ELSE {HOut("skipped",
                         WithChain(s, Append(chain, o.res.v),
                                   last_char(o.res.v.word)),
                         o.cache, NoBot)}
          : o \in get_random_word(SkipPSet(s, map), SkipStartChar(s), c, map) }

\* The predicate of provide_hint: that of skip_turn, except that
\* forbidden_letters.rs leaves the used stems out of it.
HintPSet(s, map) ==
    IF s.tag = "ForbiddenLetters"
    THEN {w \in AllKeys(map) :
             ~contains_forbidden_chars(w, s.forbidden_letters)}
    ELSE SkipPSet(s, map)

\* A hint that is played as the bot's word, as /skip does.
provide_hint_played(s, c, map) == skip_turn(s, c, map)

\* provide_hint: a random word, only shown.
provide_hint(s, c, map) ==
    { HOut(IF o.res.ok THEN "hint" ELSE "no_hint", s, o.cache, NoBot)
      : o \in get_random_word(HintPSet(s, map), SkipStartChar(s), c, map) }

StartAttempts == 3
StartLevel == 3
StartLen == 2
StartMaxLen == 8

\* The games of the selection menu.
Games ==
    {"word_chain", "alphabet_sprint", "last_letter", "synonym_string",
     "word_ladder", "forbidden_letters"}

\* `for _ in 0..3 { match get_random_word(..) { Ok(word) => return, Err(_)
\* => try again } }` of the start_* functions.
RECURSIVE StartLoop(_, _, _, _)
StartLoop(PSet, left, c, map) ==
    IF left = 0 THEN {[res |-> Err("start"), cache |-> c]}
    ELSE UNION { IF o.res.ok
                 THEN {[res |-> o.res, cache |-> o.cache]}
                 ELSE StartLoop(PSet, left - 1, o.cache, map)
                 : o \in get_random_word(PSet, None, c, map) }

\* A first state that holds the starting word twice.
FirstStateTwice(game, word, forbidden_letters) ==
    WordChain(<<word, word>>, last_char(word.word))

\* The first state of a game whose first word is `word`.
FirstState(game, word, forbidden_letters) ==
    CASE game = "word_chain" -> WordChain(<<word>>, last_char(word.word))
      [] game = "alphabet_sprint" ->
           AlphabetSprint(first_char(word.word), <<word>>)
      [] game = "last_letter" ->
           LastLetterScramble(StartLevel, <<word>>, last_char(word.word))
      [] game = "synonym_string" ->
           SynonymString(<<word>>, last_char(word.word))
      [] game = "word_ladder" ->
           WordLengthLadder(StartLen, StartMaxLen, <<word>>,
                            last_char(word.word))
      [] game = "forbidden_letters" ->
           ForbiddenLetters(forbidden_letters, <<word>>, last_char(word.word))

\* handle_game_selection and the start_* function it calls; s is the state
\* of the dialogue, which stays when no first word is found.
\* forbidden_letters is the letter drawn by choose_multiple(.., 1).
start_game(game, forbidden_letters, s, c, map) ==
    LET PSet ==
          CASE game = "word_ladder" -> {w \in AllKeys(map) : Len(w) = StartLen}
            [] game = "forbidden_letters" ->
                 {w \in AllKeys(map) :
                     ~contains_forbidden_chars(w, forbidden_letters)}
            [] OTHER -> AllKeys(map)
    IN  { IF r.res.ok
          THEN HOut("started", FirstState(game, r.res.v, forbidden_letters),
                    r.cache, Selected(game))
          ELSE HOut("start_failed", s, r.cache, NoBot)
          : r \in StartLoop(PSet, StartAttempts, c, map) }

\* handle_definition_navigation: a lookup of the word of a callback button.
handle_definition_navigation(word, s, c, map) ==
    { HOut(IF o.res.ok THEN "shown" ELSE "not_shown", s, o.cache, NoBot)
      : o \in get_word_details(word, c, map) }

(***************************************************************************)
(* Values shared by the specifications.                                    *)
(***************************************************************************)
Chats == {"c1"}

NoLast == [op |-> "none", chat |-> None, outcome |-> "none", bot |-> NoBot]
NoTasks == [t \in 1..NumTasks |-> [pc |-> "idle"]]
NoQuery == [fn |-> "none"]

IndexWords == {w_ab, w_aa, w_ba, w_bab, w_abc, w_cab, w_bac, w_bad}

FileOf(n) == IF n = 1 THEN EmbeddingsFile ELSE EmbeddingsFile2

(***************************************************************************)
(* SpecSim: get_similar_word applied to inputs drawn from bounded sets.    *)
(***************************************************************************)
SimReferences == {w_ab, w_ba, w_bab, w_bad, w_aa, w_ca, <<>>}
SimPredicates == SUBSET {w_ab, w_aa, w_abc, w_ba, w_bab, w_bac, w_bad}

InitSim ==
    /\ state = [c \in Chats |-> Start]
    /\ cache = <<>>
    /\ last = NoLast
    /\ tasks = NoTasks
    /\ disk = Missing
    /\ process = "running"
    /\ \E n \in {1, 2} :
          embeddings = [loaded |-> TRUE, map |-> init(FileOf(n))]
    /\ \/ \E word \in SimReferences, starting_char \in Letters,
             PSet \in SimPredicates :
             query = [fn |-> "get_similar_word", done |-> FALSE,
                      word |-> word, starting_char |-> starting_char,
                      PSet |-> PSet]
       \/ \E a \in SimReferences, b \in SimReferences :
             query = [fn |-> "similarity", done |-> FALSE, a |-> a, b |-> b]
       \/ \E a \in SimReferences, b \in SimReferences, n \in 0..MaxLevel :
             query = [fn |-> "contains_at_least_n_chars", done |-> FALSE,
                      a |-> a, b |-> b, n |-> n]

ApplyGetSimilarWord ==
    /\ query.fn = "get_similar_word"
    /\ ~query.done
    /\ \E r \in get_similar_word(query.word, query.starting_char,
                                 query.PSet, embeddings.map) :
          query' = [query EXCEPT !.done = TRUE] @@ [result |-> r]
    /\ UNCHANGED <<state, cache, embeddings, last, tasks, disk, process>>

ApplySimilarity ==
    /\ query.fn = "similarity"
    /\ ~query.done
    /\ query' = [query EXCEPT !.done = TRUE]
                   @@ [result |-> similarity(query.a, query.b, embeddings.map)]
    /\ UNCHANGED <<state, cache, embeddings, last, tasks, disk, process>>

ApplyContainsAtLeastNChars ==
    /\ query.fn = "contains_at_least_n_chars"
    /\ ~query.done
    /\ query' = [query EXCEPT !.done = TRUE]
                   @@ [result |-> contains_at_least_n_chars(query.a, query.b,
                                                            query.n)]
    /\ UNCHANGED <<state, cache, embeddings, last, tasks, disk, process>>

NextSim ==
    \/ ApplyGetSimilarWord
    \/ ApplySimilarity
    \/ ApplyContainsAtLeastNChars

SpecSim == InitSim /\ [][NextSim]_vars

SimReturnedOk ==
    /\ query.fn = "get_similar_word"
    /\ query.done
    /\ query.result.ok

\* C3: whenever get_similar_word(reference, starting_char, predicate)
\* returns Ok(w), w is an indexed word, w begins with starting_char and
\* predicate(w) is true.
C3_ResultSatisfiesPredicate ==
    SimReturnedOk =>
        /\ is_valid_word(query.result.v, embeddings.map)
        /\ starts_with(query.result.v, query.starting_char)
        /\ query.result.v \in query.PSet

\* A search over a bucket in which some words fail the predicate returned.
C3_Witness ==
    /\ SimReturnedOk
    /\ \E x \in DOMAIN embeddings.map[query.starting_char] :
          x \notin query.PSet

CosTo(x) ==
    cosine(embeddings.map[first_char(query.word)][query.word],
           embeddings.map[first_char(x)][x])

\* C4: whenever get_similar_word returns Ok(w), no other indexed word that
\* begins with starting_char and satisfies the predicate has a strictly
\* greater cosine similarity to the reference than w.
C4_ResultIsMostSimilar ==
    SimReturnedOk =>
        \A x \in DOMAIN embeddings.map[query.starting_char] :
            x \in query.PSet => ~FGt(CosTo(x), CosTo(query.result.v))

\* The cat/car/dog scenario of the specification, on this index: the reference
\* ba [4,3], bucket b, predicate w # ba, returns bab [3,4] (cos 0.96)
\* although bac and bad are eligible too.
C4_Witness ==
    /\ SimReturnedOk
    /\ query.word = w_ba
    /\ query.starting_char = "b"
    /\ query.PSet = {w_bab, w_bac, w_bad}
    /\ query.result.v = w_bab

(***************************************************************************)
(* Spec: the dialogue of each chat, one handler run per step.              *)
(***************************************************************************)
\* What a player can send as a non-command message: its tokens.
Texts ==
    {<<>>, <<w_ab, w_ba>>} \cup {<<w>> : w \in IndexWords \cup {w_ca, w_Ba}}

Init ==
    /\ state = [c \in Chats |-> Start]
    /\ cache = <<>>
    /\ embeddings = NotLoaded
    /\ last = NoLast
    /\ tasks = NoTasks
    /\ disk = Missing
    /\ process = "running"
    /\ query = NoQuery

Map == get_embeddings(embeddings, EmbeddingsFile).map

\* A storage with one state for all chats.
dialogue_update_all(st, c, new) == [x \in DOMAIN st |-> new]

\* dialogue.update(new) of the dialogue of chat c: InMemStorage keeps one
\* state per chat id.
dialogue_update(st, c, new) == [st EXCEPT ![c] = new]

\* One run of a handler whose outcomes are `outs`.
Handle(c, op, outs) ==
    /\ process = "running"
    /\ \E out \in outs :
          /\ state' = dialogue_update(state, c, out.state)
          /\ cache' = out.cache
          /\ last' = [op |-> op, chat |-> c, outcome |-> out.outcome,
                      bot |-> out.bot]
    /\ embeddings' = get_embeddings(embeddings, EmbeddingsFile)
    /\ UNCHANGED <<tasks, query, disk, process>>

\* A handler that only answers with a message.
Reply(c, op) ==
    /\ process = "running"
    /\ last' = [op |-> op, chat |-> c, outcome |-> "replied",
                bot |-> NoBot]
    /\ UNCHANGED <<state, cache, embeddings, tasks, query, disk, process>>

InGame(c) == state[c].tag # "Start"

Room(c) == Len(ChainOf(state[c])) + 2 <= MaxChain

\* callback_handler, a game button: the game starts whatever the state is.
Select(c, game) ==
    \E f \in IF game = "forbidden_letters" THEN Letters ELSE {None} :
        Handle(c, "select", start_game(game, <<f>>, state[c], cache, Map))

\* The `Err(_) =>` arm of a game handler: the text is not a command.
PlayerWord(c, text) ==
    /\ InGame(c)
    /\ Room(c)
    /\ Handle(c, "word", process_player_word(text, state[c], cache, Map))

Skip(c) ==
    /\ InGame(c)
    /\ Room(c)
    /\ Handle(c, "skip", skip_turn(state[c], cache, Map))

Hint(c) ==
    /\ InGame(c)
    /\ Handle(c, "hint", provide_hint(state[c], cache, Map))

\* A stop that leaves the game running.
on_stop_keep(s) == s

\* The Ok(Command::Stop) arm of a game handler ends with
\* dialogue.update(Start).
on_stop(s) == Start

\* Command::Stop in a game: dialogue.update(Start).
Stop(c) ==
    /\ process = "running"
    /\ InGame(c)
    /\ state' = dialogue_update(state, c, on_stop(state[c]))
    /\ last' = [op |-> "stop", chat |-> c, outcome |-> "stopped",
                bot |-> NoBot]
    /\ UNCHANGED <<cache, embeddings, tasks, query, disk, process>>

\* /start, /play, /stats, /score, /rules in a game.
OtherCommand(c) == InGame(c) /\ Reply(c, "command")

\* message_handler: any message while no game is on.
StartMessage(c) == ~InGame(c) /\ Reply(c, "start_message")

\* callback_handler, a definition-page button of `word`, a word shown in
\* the game.
DefinitionNavigation(c, word) ==
    /\ \E i \in 1..Len(ChainOf(state[c])) : ChainOf(state[c])[i].word = word
    /\ Handle(c, "navigate",
           handle_definition_navigation(word, state[c], cache, Map))

Next ==
    \/ \E c \in Chats, game \in Games : Select(c, game)
    \/ \E c \in Chats, text \in Texts : PlayerWord(c, text)
    \/ \E c \in Chats : Skip(c)
    \/ \E c \in Chats : Hint(c)
    \/ \E c \in Chats : Stop(c)
    \/ \E c \in Chats : OtherCommand(c)
    \/ \E c \in Chats : StartMessage(c)
    \/ \E c \in Chats, word \in IndexWords :
          DefinitionNavigation(c, word)

Spec == Init /\ [][Next]_vars

StemsOf(info) == Range(info.stems)

\* C1: in every reachable session state of every variant, no two different
\* entries of the chain share a stem.
C1_NoSharedStems ==
    \A c \in Chats :
        \A i, j \in 1..Len(ChainOf(state[c])) :
            i # j => StemsOf(ChainOf(state[c])[i])
                         \cap StemsOf(ChainOf(state[c])[j]) = {}

\* The attempt budget the variants are said to have.
C5_Budget(variant) ==
    IF variant \in {"ForbiddenLetters", "SynonymString"} THEN 5 ELSE 3

\* C5: a get_bot_response call never makes more searches than the budget
\* of its variant (3, or 5 for forbidden-letters and synonym-string), and
\* when a search finds no word in the bucket that satisfies the predicate
\* the call fails after exactly that many searches.
C5_ExhaustedBucketUsesBudget ==
    last.bot.called =>
        /\ Len(last.bot.searches) <= C5_Budget(last.bot.variant)
        /\ (\E i \in 1..Len(last.bot.searches) : ~last.bot.searches[i].ok)
              => /\ ~last.bot.ok
                 /\ Len(last.bot.searches) = C5_Budget(last.bot.variant)

\* A forbidden-letters or synonym-string call whose first search already
\* found nothing.
C5_Witness ==
    /\ last.bot.called
    /\ last.bot.variant \in {"ForbiddenLetters", "SynonymString"}
    /\ Len(last.bot.searches) = 5
    /\ ~last.bot.searches[1].ok

\* C6: within one get_bot_response call no candidate word is passed to
\* get_word_details twice.
C6_NoCandidateResolvedTwice ==
    last.bot.called =>
        \A i, j \in 1..Len(last.bot.resolved) :
            i # j => last.bot.resolved[i] # last.bot.resolved[j]

C7_Rejections ==
    {"no_token", "many_tokens", "wrong_start", "wrong_start_or_length",
     "forbidden_letter", "too_few_shared", "not_similar", "not_recognised",
     "already_used"}

\* C7: a step in which a player submission is rejected leaves the session
\* state of every chat as it was.
C7_RejectionKeepsState ==
    [][(last'.op = "word" /\ last'.outcome \in C7_Rejections)
          => state' = state]_vars

\* A forbidden-letters game in which a word was refused for a used stem.
C7_Witness ==
    /\ last.op = "word"
    /\ last.outcome = "already_used"
    /\ state[last.chat].tag = "ForbiddenLetters"

C9_ForbiddenLettersKept ==
    /\ [](\A c \in Chats :
            state[c].tag = "ForbiddenLetters"
            => \A i \in 1..Len(state[c].chain) :
                  \A k \in 1..Len(state[c].chain[i].word) :
                      state[c].chain[i].word[k]
                          \notin Range(state[c].forbidden_letters))
    /\ [][\A c \in Chats :
            (/\ state[c].tag = "ForbiddenLetters"
             /\ state'[c].tag = "ForbiddenLetters"
             /\ last'.op # "select")
            => state'[c].forbidden_letters = state[c].forbidden_letters]_vars

\* A forbidden-letters chain of a start word, a skip word, a player word
\* and a bot word.
C9_Witness ==
    \E c \in Chats :
        /\ state[c].tag = "ForbiddenLetters"
        /\ Len(state[c].chain) = 4
        /\ last.op = "word"

(***************************************************************************)
(* SpecConc: get_word_details calls of several tasks, interleaved at their *)
(* await points: cache.get (239), the resolver call (255-257) and          *)
(* cache.insert (289).                                                     *)
(***************************************************************************)
Tasks == 1..NumTasks
TaskWords == {w_ab, w_ba, w_aa, w_ca, w_bac}

InitConc ==
    /\ state = [c \in Chats |-> Start]
    /\ cache = <<>>
    /\ embeddings = NotLoaded
    /\ last = NoLast
    /\ tasks = NoTasks
    /\ disk = Missing
    /\ process = "running"
    /\ query = NoQuery

\* A task calls get_word_details(word) and suspends at cache.get.
TaskCall(t, word) ==
    /\ tasks[t].pc = "idle"
    /\ tasks' = [tasks EXCEPT ![t] = [pc |-> "cache_get", word |-> word]]
    /\ UNCHANGED <<state, cache, embeddings, last, query, disk, process>>

\* cache.get completes: a hit returns; a miss checks is_valid_word and
\* sends the request to the resolver.
TaskCacheGet(t) ==
    /\ tasks[t].pc = "cache_get"
    /\ LET word == tasks[t].word
           emb == get_embeddings(embeddings, EmbeddingsFile)
       IN  IF cache_get(cache, word).some
           THEN /\ tasks' = [tasks EXCEPT ![t] =
                        [pc |-> "done", word |-> word,
                         res |-> Ok(cache_get(cache, word).v),
                         fetched |-> FALSE]]
                /\ UNCHANGED embeddings
           ELSE /\ embeddings' = emb
                /\ IF ~is_valid_word(word, emb.map)
                   THEN tasks' = [tasks EXCEPT ![t] =
                            [pc |-> "done", word |-> word,
                             res |-> Err("NotFound"), fetched |-> FALSE]]
                   ELSE tasks' = [tasks EXCEPT ![t] =
                            [pc |-> "resolver", word |-> word]]
    /\ UNCHANGED <<state, cache, last, query, disk, process>>

\* The resolver call completes.
TaskResolved(t) ==
    /\ tasks[t].pc = "resolver"
    /\ \E d \in collegiate_definition(tasks[t].word) :
          LET word == tasks[t].word
              r == IF d.ok THEN ProcessDefinitions(word, d.v)
                   ELSE Err("ApiError")
          IN  tasks' = [tasks EXCEPT ![t] =
                  IF r.ok
                  THEN [pc |-> "cache_insert", word |-> word, res |-> r]
                  ELSE [pc |-> "done", word |-> word, res |-> r,
                        fetched |-> TRUE]]
    /\ UNCHANGED <<state, cache, embeddings, last, query, disk, process>>

\* cache.insert completes and the call returns.
TaskCacheInsert(t) ==
    /\ tasks[t].pc = "cache_insert"
    /\ cache' \in CacheInsert(cache, tasks[t].word, tasks[t].res.v)
    /\ tasks' = [tasks EXCEPT ![t] =
            [pc |-> "done", word |-> tasks[t].word, res |-> tasks[t].res,
             fetched |-> TRUE]]
    /\ UNCHANGED <<state, embeddings, last, query, disk, process>>

\* The caller takes the result; the task may call again.
TaskReturn(t) ==
    /\ tasks[t].pc = "done"
    /\ tasks' = [tasks EXCEPT ![t] = [pc |-> "idle"]]
    /\ UNCHANGED <<state, cache, embeddings, last, query, disk, process>>

NextConc ==
    \/ \E t \in Tasks, word \in TaskWords : TaskCall(t, word)
    \/ \E t \in Tasks : TaskCacheGet(t)
    \/ \E t \in Tasks : TaskResolved(t)
    \/ \E t \in Tasks : TaskCacheInsert(t)
    \/ \E t \in Tasks : TaskReturn(t)

SpecConc == InitConc /\ [][NextConc]_vars

InFlight(word) ==
    {t \in Tasks : tasks[t].pc \in {"resolver", "cache_insert"}
                   /\ tasks[t].word = word}

\* C2: when two or more get_word_details calls for the same uncached valid
\* word run concurrently, the resolver is called at most once for that
\* word: at no time have two running calls both contacted the resolver for
\* the same word.
C2_SingleFlight ==
    \A word \in TaskWords : Cardinality(InFlight(word)) <= 1

\* C10: once get_word_details(w) has succeeded and the entry has not been
\* evicted, every later get_word_details(w), of any caller, returns the
\* same WordInfo without calling the resolver: a call whose cache.get runs
\* while w is cached finishes there with the cached value, and the cached
\* value is the one the successful calls returned.
C10_CachedWordServedFromCache ==
    /\ [][\A t \in Tasks :
            (/\ tasks[t].pc = "cache_get"
             /\ tasks[t].word \in DOMAIN cache
             /\ tasks'[t].pc # "cache_get")
            => /\ tasks'[t].pc = "done"
               /\ tasks'[t].res = Ok(cache[tasks[t].word])
               /\ ~tasks'[t].fetched]_vars
    /\ [](\A t \in Tasks :
            (/\ tasks[t].pc = "done"
             /\ tasks[t].res.ok
             /\ tasks[t].word \in DOMAIN cache)
            => cache[tasks[t].word] = tasks[t].res.v)

\* A call has returned a word from the cache that an earlier call resolved.
C10_Witness ==
    \E t \in Tasks :
        /\ tasks[t].pc = "done"
        /\ tasks[t].res.ok
        /\ ~tasks[t].fetched

\* C11: get_word_details of an uncached word that is not in the embedding
\* index returns NotFound without calling the resolver and leaves the cache
\* unchanged: the call finishes at its first step, and no call for such a
\* word is ever at the resolver or at cache.insert.
C11_UnindexedWordNotFound ==
    /\ [][\A t \in Tasks :
            (/\ tasks[t].pc = "cache_get"
             /\ tasks[t].word \notin DOMAIN cache
             /\ tasks[t].word \notin IndexWords
             /\ tasks'[t].pc # "cache_get")
            => /\ tasks'[t].pc = "done"
               /\ tasks'[t].res = Err("NotFound")
               /\ ~tasks'[t].fetched
               /\ cache' = cache]_vars
    /\ [](\A t \in Tasks :
            tasks[t].pc \in {"resolver", "cache_insert"}
            => tasks[t].word \in IndexWords)

\* A call for the unindexed word ca has returned NotFound.
C11_Witness ==
    \E t \in Tasks :
        /\ tasks[t].pc = "done"
        /\ tasks[t].word = w_ca
        /\ tasks[t].res = Err("NotFound")
        /\ ~tasks[t].fetched

\* Some record of the resolver's answer for the word has a short-definition
\* array that is present and not empty.
C12_HasShortDefinition(word) ==
    \E i \in 1..Len(MwAnswer(word)) :
        /\ MwAnswer(word)[i].shortdef.some
        /\ MwAnswer(word)[i].shortdef.v # <<>>

\* C12: when every record the resolver answers for a word has an absent or
\* empty short-definition array, get_word_details returns a failure and
\* inserts nothing: every successful call and every cache entry is for a
\* word with some non-empty short-definition array.
C12_EmptyShortdefFails ==
    /\ \A t \in Tasks :
          (tasks[t].pc \in {"cache_insert", "done"} /\ tasks[t].res.ok)
          => C12_HasShortDefinition(tasks[t].word)
    /\ \A w \in DOMAIN cache : C12_HasShortDefinition(w)


(***************************************************************************)
(* SpecLife: the life of the process.  It starts with init_cache, serves   *)
(* word-chain games, saves the cache when the shutdown signal arrives and  *)
(* exits; between two runs cache.bin can be removed or replaced.           *)
(***************************************************************************)
\* A shutdown handler that propagates the error of save_cache.
shutdown_handler_unwrap(c, d) ==
    {[disk |-> s.disk, log |-> IF s.res.ok THEN "saved" ELSE "panic",
      process |-> IF s.res.ok THEN "exited" ELSE "aborted", res |-> s.res]
        : s \in save_cache(c, d)}

\* setup_shutdown_handler's task after ctrl_c: save the cache, log the
\* result; the dispatcher's own ctrl-c handler ends the process.
shutdown_handler(c, d) ==
    {[disk |-> s.disk, log |-> IF s.res.ok THEN "saved" ELSE "save_failed",
      process |-> "exited", res |-> s.res]
        : s \in save_cache(c, d)}

\* A snapshot written by a run whose word list had the word "ca".
ForeignSnapshot ==
    encode_into_std_write(
        <<[key |-> w_ca,
           value |-> [word |-> w_ca, stems |-> <<w_ca>>,
                      defs |-> <<[functional_label |-> "noun",
                                  definitions |-> <<"d1">>]>>]]>>)

LifeGames == {"word_chain"}

InitLife == Init

Shutdown ==
    /\ process = "running"
    /\ \E h \in shutdown_handler(cache, disk) :
          /\ disk' = h.disk
          /\ process' = h.process
          /\ last' = [op |-> "shutdown", chat |-> None, outcome |-> h.log,
                      bot |-> NoBot, res |-> h.res, saved |-> cache,
                      written |-> h.disk]
    /\ UNCHANGED <<state, cache, embeddings, tasks, query>>

\* A new process: main runs init_cache; the dialogue storage and the
\* embedding index start empty.
Restart ==
    /\ process # "running"
    /\ \E l \in init_cache(disk) :
          /\ cache' = l.cache
          /\ process' = IF l.ok THEN "running" ELSE "aborted"
          /\ last' = [op |-> "init_cache", chat |-> None, outcome |-> l.log,
                      bot |-> NoBot]
    /\ state' = [c \in Chats |-> Start]
    /\ embeddings' = NotLoaded
    /\ UNCHANGED <<tasks, query, disk>>

RemoveFile ==
    /\ process # "running"
    /\ disk.exists
    /\ disk' = Missing
    /\ UNCHANGED <<state, cache, embeddings, last, tasks, query, process>>

ReplaceFile ==
    /\ process # "running"
    /\ disk # File(ForeignSnapshot)
    /\ disk' = File(ForeignSnapshot)
    /\ UNCHANGED <<state, cache, embeddings, last, tasks, query, process>>

NextLife ==
    \/ \E c \in Chats, game \in LifeGames : Select(c, game)
    \/ Shutdown
    \/ Restart
    \/ RemoveFile
    \/ ReplaceFile

SpecLife == InitLife /\ [][NextLife]_vars

C14_BadSnapshotStartsEmpty ==
    [][(/\ process # "running"
        /\ disk' = disk
        /\ vars' # vars
        /\ (~disk.exists \/ ~decode_from_reader(disk.bytes).ok))
       => /\ process' = "running"
          /\ cache' = <<>>
          /\ last'.op = "init_cache"
          /\ last'.outcome \in {"no_file", "load_failed"}]_vars

C14_Witness ==
    /\ last.op = "init_cache"
    /\ last.outcome = "load_failed"
    /\ disk.exists
    /\ process = "running"
    /\ cache = <<>>

\* C15: when save_cache fails at shutdown its error is only logged: the
\* process ends normally, and neither the sessions nor the in-memory cache
\* change.
C15_SaveFailureOnlyLogged ==
    [][(/\ process = "running"
        /\ process' # "running"
        /\ ~last'.res.ok)
       => /\ last'.outcome = "save_failed"
          /\ last'.res.e \in {"IoError", "CacheError"}
          /\ process' = "exited"
          /\ state' = state
          /\ cache' = cache]_vars

C15_Witness ==
    /\ last.op = "shutdown"
    /\ ~last.res.ok
    /\ last.outcome = "save_failed"
    /\ process = "exited"
    /\ cache # <<>>
    /\ \E c \in Chats : state[c].tag # "Start"

\* C16: similarity(a, b) and get_similar_word(reference, ..) fail with
\* InvalidWord, and with no other error, whenever a, b or the reference is
\* not an indexed word, also when no indexed word begins with its first
\* character.
C16_UnindexedWordIsInvalidWord ==
    /\ (/\ query.fn = "get_similar_word"
        /\ query.done
        /\ ~is_valid_word(query.word, embeddings.map))
       => query.result = Err("InvalidWord")
    /\ (/\ query.fn = "similarity"
        /\ query.done
        /\ (\/ ~is_valid_word(query.a, embeddings.map)
            \/ ~is_valid_word(query.b, embeddings.map)))
       => query.result = Err("InvalidWord")

(***************************************************************************)
(* SpecWarm: word-chain games in a process whose init_cache found no file  *)
(* or a snapshot of an earlier run.                                        *)
(***************************************************************************)
InitWarm ==
    /\ state = [c \in Chats |-> Start]
    /\ embeddings = NotLoaded
    /\ last = NoLast
    /\ tasks = NoTasks
    /\ query = NoQuery
    /\ process = "running"
    /\ disk \in {Missing, File(ForeignSnapshot)}
    /\ \E l \in init_cache(disk) : cache = l.cache

NextWarm ==
    \/ \E c \in Chats, game \in LifeGames : Select(c, game)
    \/ \E c \in Chats, text \in Texts : PlayerWord(c, text)
    \/ \E c \in Chats : Stop(c)

SpecWarm == InitWarm /\ [][NextWarm]_vars

\* C17: a word of the player that passes validation and is pushed on the
\* chain (the point after which the bot is asked for its response) is a
\* member of the embedding index, whatever the cache holds.
C17_AcceptedWordIsIndexed ==
    (last.op = "word" /\ last.bot.called)
        => is_valid_word(last.bot.player_word,
                         get_embeddings(embeddings, EmbeddingsFile).map)

C19_FloorInclusive ==
    \A c \in Chats :
        state[c].tag = "SynonymString" =>
            LET s == state[c]
                prev_word == s.chain[Len(s.chain)].word
            IN  \A x \in AllKeys(Map) \ used_stems_of(s.chain) :
                    (/\ ~FLt(similarity_or_zero(x, prev_word, Map), F08)
                     /\ ~FGt(similarity_or_zero(x, prev_word, Map), F08))
                    => /\ VariantCheck(s, x, Map) = None
                       /\ x \in synonym_string_eligible(prev_word, Map)
                       /\ x \in HintPSet(s, Map)
                       /\ x \in SkipPSet(s, Map)

LadderTexts == {<<w>> : w \in LadderWords \cup {w_ca}}

InitLadder ==
    /\ state = [c \in Chats |-> Start]
    /\ cache = <<>>
    /\ embeddings = [loaded |-> TRUE, map |-> init(LadderFile)]
    /\ last = NoLast
    /\ tasks = NoTasks
    /\ query = NoQuery
    /\ disk = Missing
    /\ process = "running"

\* The `Err(_) =>` arm of word_ladder: the text is not a command.
LadderPlayerWord(c, text) ==
    /\ InGame(c)
    /\ Handle(c, "word", process_player_word(text, state[c], cache, Map))

NextLadder ==
    \/ \E c \in Chats : Select(c, "word_ladder")
    \/ \E c \in Chats, text \in LadderTexts : LadderPlayerWord(c, text)
    \/ \E c \in Chats : Stop(c)

SpecLadder == InitLadder /\ [][NextLadder]_vars

C23_Variant(game) ==
    CASE game = "word_chain" -> "WordChain"
      [] game = "alphabet_sprint" -> "AlphabetSprint"
      [] game = "last_letter" -> "LastLetterScramble"
      [] game = "synonym_string" -> "SynonymString"
      [] game = "word_ladder" -> "WordLengthLadder"
      [] game = "forbidden_letters" -> "ForbiddenLetters"

\* The constraint fields that the starting word w determines.
C23_Derived(new, w) ==
    CASE new.tag = "AlphabetSprint" -> new.alphabet = first_char(w)
      [] new.tag = "LastLetterScramble" ->
           new.curr_char = last_char(w) /\ new.level = StartLevel
      [] new.tag = "WordLengthLadder" ->
           /\ new.curr_char = last_char(w)
           /\ new.curr_len = StartLen
           /\ new.max_len = StartMaxLen
           /\ Len(w) = StartLen
      [] new.tag = "ForbiddenLetters" ->
           /\ new.curr_char = last_char(w)
           /\ Len(new.forbidden_letters) = 1
           /\ ~contains_forbidden_chars(w, new.forbidden_letters)
      [] OTHER -> new.curr_char = last_char(w)

\* C23: a game selection either leaves the session state as it was (no
\* starting word was obtained) or sets it to the selected variant with a
\* chain of exactly one word, the starting word, an indexed word, and the
\* constraints derived from that word; there is no other outcome.
C23_SelectionOutcome ==
    [][\A c \in Chats :
          (last'.op = "select" /\ last'.chat = c)
          => \/ last'.outcome = "start_failed" /\ state'[c] = state[c]
             \/ /\ last'.outcome = "started"
                /\ state'[c].tag = C23_Variant(last'.bot.game)
                /\ Len(ChainOf(state'[c])) = 1
                /\ ChainOf(state'[c])[1].word \in IndexWords
                /\ C23_Derived(state'[c], ChainOf(state'[c])[1].word)]_vars

\* A selection made during a game found no starting word: the game goes on.
C23_Witness ==
    /\ last.op = "select"
    /\ last.outcome = "start_failed"
    /\ state[last.chat].tag # "Start"

(***************************************************************************)
(* SpecChats: two chats play word-chain games; their updates interleave    *)
(* and share the cache and the embedding index.                            *)
(***************************************************************************)
TwoChats == {"c1", "c2"}

ChatTexts == {<<w_ab>>, <<w_ba>>}

InitChats ==
    /\ state = [c \in TwoChats |-> Start]
    /\ cache = <<>>
    /\ embeddings = NotLoaded
    /\ last = NoLast
    /\ tasks = NoTasks
    /\ query = NoQuery
    /\ disk = Missing
    /\ process = "running"

\* A game is selected from the menu shown to a chat with no game.
ChatSelect(c, game) == state[c].tag = "Start" /\ Select(c, game)

NextChats ==
    \/ \E c \in TwoChats, game \in LifeGames : ChatSelect(c, game)
    \/ \E c \in TwoChats, text \in ChatTexts : PlayerWord(c, text)
    \/ \E c \in TwoChats : Stop(c)

SpecChats == InitChats /\ [][NextChats]_vars

\* The states a handler run of kind op can give to a chat in state s when
\* the chat is alone and nothing is cached.
C24_Alone(s, op) ==
    CASE op = "select" ->
           {out.state : out \in UNION {start_game(game, <<None>>, s, <<>>, Map)
                                          : game \in LifeGames}}
      [] op = "word" ->
           {out.state : out \in UNION {process_player_word(text, s, <<>>, Map)
                                          : text \in ChatTexts}}
      [] op = "stop" -> {Start}

Callers == {"is_valid_word", "similarity", "get_similar_word",
            "get_random_word"}

\* OnceLock::set: Ok and the value installed when the cell is empty, Err and
\* the cell unchanged when it is not.
OnceLock_set(emb, map) ==
    IF emb.loaded THEN [ok |-> FALSE, cell |-> emb]
    ELSE [ok |-> TRUE, cell |-> [loaded |-> TRUE, map |-> map]]

\* A task enters get_embeddings from one of its callers.
LoadCall(t, fn) ==
    /\ tasks[t].pc = "idle"
    /\ tasks' = [tasks EXCEPT ![t] = [pc |-> "get", fn |-> fn]]
    /\ UNCHANGED <<state, cache, embeddings, last, query, disk, process>>

\* EMBEDDINGS.get(): Some returns the map, None goes on to init.
LoadGet(t) ==
    /\ tasks[t].pc = "get"
    /\ tasks' = [tasks EXCEPT ![t] =
            [pc |-> IF embeddings.loaded THEN "done" ELSE "init",
             fn |-> tasks[t].fn]]
    /\ UNCHANGED <<state, cache, embeddings, last, query, disk, process>>

\* init returns and the result is set; expect panics on Err.
LoadSet(t) ==
    /\ tasks[t].pc = "init"
    /\ LET r == OnceLock_set(embeddings, init(EmbeddingsFile))
       IN  /\ embeddings' = r.cell
           /\ tasks' = [tasks EXCEPT ![t] =
                  [pc |-> IF r.ok THEN "done" ELSE "panicked",
                   fn |-> tasks[t].fn]]
    /\ UNCHANGED <<state, cache, last, query, disk, process>>

\* The caller goes on with the map; the task may call again.
LoadReturn(t) ==
    /\ tasks[t].pc = "done"
    /\ tasks' = [tasks EXCEPT ![t] = [pc |-> "idle"]]
    /\ UNCHANGED <<state, cache, embeddings, last, query, disk, process>>

NextLoad ==
    \/ \E t \in Tasks, fn \in Callers : LoadCall(t, fn)
    \/ \E t \in Tasks : LoadGet(t)
    \/ \E t \in Tasks : LoadSet(t)
    \/ \E t \in Tasks : LoadReturn(t)

SpecLoad == InitConc /\ [][NextLoad]_vars

\* C25: under every interleaving of concurrent first calls to
\* get_embeddings every caller obtains the index: no caller panics.
C25_NoCallerPanics ==
    \A t \in Tasks : tasks[t].pc # "panicked"

(***************************************************************************)
(* SpecSource: the process starts over an embedding source drawn from a    *)
(* bounded set, and is_valid_word or similarity is applied once it runs.   *)
(***************************************************************************)
l_ab_1_0 == <<"a", "b", " ", "1", " ", "0">>
l_ab_2_0 == <<"a", "b", " ", "2", " ", "0">>
l_aa_0_0 == <<"a", "a", " ", "0", " ", "0">>
l_aa_1 == <<" ", "a", "a", " ", "1">>
l_ba_x_1 == <<"b", "a", " ", "x", " ", "1">>
l_ba_0_m1 == <<"b", "a", "\t", "0", " ", " ", "-", "1">>
l_blank == <<" ">>

SourceLines ==
    {l_ab_1_0, l_ab_2_0, l_aa_0_0, l_aa_1, l_ba_x_1, l_ba_0_m1, l_blank, <<>>}

Sources ==
    {Unreadable}
    \cup {Readable(f) : f \in UNION {[1..n -> SourceLines] : n \in 0..MaxRows}}

SourceWords == {w_ab, w_aa, w_ba, w_ca, <<>>}

InitSource ==
    /\ state = [c \in Chats |-> Start]
    /\ cache = <<>>
    /\ embeddings = NotLoaded
    /\ last = NoLast
    /\ tasks = NoTasks
    /\ disk = Missing
    /\ process = "starting"
    /\ \E src \in Sources :
          \/ \E word \in SourceWords :
                query = [fn |-> "is_valid_word", done |-> FALSE, src |-> src,
                         word |-> word]
          \/ \E a \in {w_ab, w_aa, w_ba}, b \in {w_ab, w_aa, w_ba} :
                query = [fn |-> "similarity", done |-> FALSE, src |-> src,
                         a |-> a, b |-> b]

\* main up to dispatch: the environment, the cache, the bot, the shutdown
\* handler and the dispatcher; the embedding source is not opened.
MainStart ==
    /\ process = "starting"
    /\ process' = "running"
    /\ cache' = init_cache(disk)
    /\ UNCHANGED <<state, embeddings, last, tasks, query, disk>>

\* similarity, lines 212-244, with the Err arm of get_embeddings.
similarity_source(a, b, emb, src) ==
    IF Len(a) = 0 \/ Len(b) = 0
    THEN [res |-> Err("InvalidWord"), emb |-> emb]
    ELSE LET g == get_embeddings_source(emb, src)
         IN  [res |-> IF g.res.ok THEN similarity(a, b, g.res.v)
                      ELSE Err("IoError"),
              emb |-> g.emb]

ApplyIsValidWordSource ==
    /\ process = "running"
    /\ query.fn = "is_valid_word"
    /\ ~query.done
    /\ LET r == is_valid_word_source(query.word, embeddings, query.src)
       IN  /\ query' = [query EXCEPT !.done = TRUE] @@ [result |-> r.res]
           /\ embeddings' = r.emb
    /\ UNCHANGED <<state, cache, last, tasks, disk, process>>

ApplySimilaritySource ==
    /\ process = "running"
    /\ query.fn = "similarity"
    /\ ~query.done
    /\ LET r == similarity_source(query.a, query.b, embeddings, query.src)
       IN  /\ query' = [query EXCEPT !.done = TRUE] @@ [result |-> r.res]
           /\ embeddings' = r.emb
    /\ UNCHANGED <<state, cache, last, tasks, disk, process>>

NextSource ==
    \/ MainStart
    \/ ApplyIsValidWordSource
    \/ ApplySimilaritySource

SpecSource == InitSource /\ [][NextSource]_vars

\* C26: when the embedding source cannot be read the process does not
\* reach the state in which it serves chats.
C26_UnreadableSourceIsFatal ==
    ~query.src.readable => process # "running"

\* Word w is the first token of a line whose other tokens all parse.
C27_HeadsParsedRow(w, lines) ==
    \E i \in 1..Len(lines) :
        LET toks == split_whitespace(lines[i])
        IN  /\ toks # <<>>
            /\ toks[1] = w
            /\ \A j \in 2..Len(toks) : parse_f64(toks[j]).ok

\* C27: after loading, is_valid_word(w) is true exactly for the words that
\* head a line whose numbers all parsed; every loaded word lies in the
\* bucket of its own first character and has the numbers of one of its
\* lines.
C27_ValidWordsAreParsedRows ==
    /\ (query.fn = "is_valid_word" /\ query.done /\ query.src.readable)
          => query.result = C27_HeadsParsedRow(query.word, query.src.lines)
    /\ embeddings.loaded =>
          \A c \in DOMAIN embeddings.map :
              \A w \in DOMAIN embeddings.map[c] :
                  /\ first_char(w) = c
                  /\ \E i \in 1..Len(query.src.lines) :
                        parse_line(query.src.lines[i])
                            = Some([word |-> w, vec |-> embeddings.map[c][w]])

\* A word was found valid whose line follows a line with a parse error and
\* an empty line.
C27_Witness ==
    /\ query.fn = "is_valid_word"
    /\ query.done
    /\ query.result
    /\ query.src.readable
    /\ Len(query.src.lines) = 3
    /\ query.src.lines[1] = l_ba_x_1
    /\ query.src.lines[2] = <<>>
    /\ split_whitespace(query.src.lines[3])[1] = query.word

\* C28: after loading any source, all vectors of the words of one bucket
\* have the same number of components.
C28_BucketDimensionsEqual ==
    embeddings.loaded =>
        \A c \in DOMAIN embeddings.map :
            \A w1 \in DOMAIN embeddings.map[c], w2 \in DOMAIN embeddings.map[c] :
                Len(embeddings.map[c][w1]) = Len(embeddings.map[c][w2])

C29_IsZero(v) == \A i \in 1..Len(v) : v[i] = 0

C29_Indexed(w) ==
    /\ embeddings.loaded
    /\ is_valid_word(w, embeddings.map)

\* C29: similarity(a, b) of two indexed words returns the value 0, not an
\* error, whenever the vector of a or of b is the zero vector.
C29_ZeroVectorGivesZero ==
    (/\ query.fn = "similarity"
     /\ query.done
     /\ C29_Indexed(query.a)
     /\ C29_Indexed(query.b)
     /\ \/ C29_IsZero(embeddings.map[first_char(query.a)][query.a])
        \/ C29_IsZero(embeddings.map[first_char(query.b)][query.b]))
    => query.result = Ok(FZero)

\* The similarity of a word with the zero vector and a word with a vector
\* of the same length that is not zero was computed.
C29_Witness ==
    /\ query.fn = "similarity"
    /\ query.done
    /\ query.a = w_aa
    /\ query.b = w_ab
    /\ C29_Indexed(w_aa)
    /\ C29_Indexed(w_ab)
    /\ embeddings.map["a"][w_aa] = <<0, 0>>
    /\ embeddings.map["a"][w_ab] = <<1, 0>>
    /\ query.result = Ok(FZero)

\* MAX_ATTEMPTS of the variant's get_bot_response.
C30_MaxAttempts(variant) ==
    CASE variant = "WordChain" -> WordChainMaxAttempts
      [] variant = "AlphabetSprint" -> AlphabetSprintMaxAttempts
      [] variant = "LastLetterScramble" -> ScrambledMaxAttempts
      [] variant = "SynonymString" -> SynonymMaxAttempts
      [] variant = "WordLengthLadder" -> WordLadderMaxAttempts
      [] variant = "ForbiddenLetters" -> ForbiddenMaxAttempts

\* C30: every get_bot_response call returns after at most MAX_ATTEMPTS
\* loop iterations, each with one search and at most one dictionary
\* lookup, whatever the searches and the lookups gave; with the lookup of
\* the player's own word a move makes at most 1 + MAX_ATTEMPTS lookups.
C30_LookupsWithinBudget ==
    last.bot.called =>
        /\ Len(last.bot.searches) <= C30_MaxAttempts(last.bot.variant)
        /\ Len(last.bot.resolved) <= Len(last.bot.searches)
        /\ 1 + Len(last.bot.resolved) <= 1 + C30_MaxAttempts(last.bot.variant)
        /\ \A i \in 1..Len(last.bot.resolved) :
              \E j \in 1..Len(last.bot.searches) :
                  last.bot.searches[j] = Ok(last.bot.resolved[i])

\* A call used its whole budget on lookups and failed.
C30_Witness ==
    /\ last.bot.called
    /\ ~last.bot.ok
    /\ Len(last.bot.resolved) = C30_MaxAttempts(last.bot.variant)

ChainStyle ==
    {"WordChain", "ForbiddenLetters", "LastLetterScramble", "SynonymString",
     "WordLengthLadder"}

\* C31: in every state of a chain-style variant curr_char is the last
\* character of the last chain entry, and every chain entry after the first
\* begins with the last character of the entry before it.
C31_ChainIsLinked ==
    \A c \in Chats :
        state[c].tag \in ChainStyle =>
            LET chain == state[c].chain
            IN  /\ state[c].curr_char = last_char(chain[Len(chain)].word)
                /\ \A i \in 2..Len(chain) :
                      first_char(chain[i].word) = last_char(chain[i - 1].word)

\* A chain of a start word, a /skip word, a player word and a bot response.
C31_Witness ==
    \E c \in Chats :
        /\ state[c].tag \in ChainStyle
        /\ Len(state[c].chain) = 4
        /\ last.op = "word"
        /\ last.bot.called
        /\ last.bot.ok

\* C32: in every AlphabetSprint state the alphabet letter is the first
\* character of the starting word and every word of the list begins with
\* it; no update of a running session changes the letter.
C32_AlphabetIsKept ==
    /\ [](\A c \in Chats :
            state[c].tag = "AlphabetSprint" =>
                \A i \in 1..Len(state[c].words) :
                    first_char(state[c].words[i].word) = state[c].alphabet)
    /\ [][\A c \in Chats :
            (/\ state[c].tag = "AlphabetSprint"
             /\ state'[c].tag = "AlphabetSprint"
             /\ last'.op # "select")
            => state'[c].alphabet = state[c].alphabet]_vars

\* A list of a start word, a /skip word, a player word and a bot response.
C32_Witness ==
    \E c \in Chats :
        /\ state[c].tag = "AlphabetSprint"
        /\ Len(state[c].words) = 4
        /\ last.op = "word"
        /\ last.bot.called
        /\ last.bot.ok

(***************************************************************************)
(* SpecLadderSkip: word-ladder games as in SpecLadder, with /skip.         *)
(***************************************************************************)
\* Command::Skip of word_ladder.
LadderSkip(c) ==
    /\ InGame(c)
    /\ Handle(c, "skip", skip_turn(state[c], cache, Map))

NextLadderSkip ==
    \/ \E c \in Chats : Select(c, "word_ladder")
    \/ \E c \in Chats, text \in LadderTexts : LadderPlayerWord(c, text)
    \/ \E c \in Chats : LadderSkip(c)
    \/ \E c \in Chats : Stop(c)

SpecLadderSkip == InitLadder /\ [][NextLadderSkip]_vars

\* C33: in every WordLengthLadder state 2 <= curr_len <= max_len and
\* max_len = 8.
C33_LadderLengthInRange ==
    \A c \in Chats :
        state[c].tag = "WordLengthLadder" =>
            /\ 2 <= state[c].curr_len
            /\ state[c].curr_len <= state[c].max_len
            /\ state[c].max_len = 8

\* C34: a session leaves Start only through a game selection, and a game
\* selection handled while a game is active leaves the active session as
\* it is.
C34_SelectionOnlyFromStart ==
    [][\A c \in Chats :
          /\ (state[c].tag = "Start" /\ state'[c].tag # "Start")
                => (last'.op = "select" /\ last'.chat = c)
          /\ (state[c].tag # "Start" /\ last'.op = "select" /\ last'.chat = c)
                => state'[c] = state[c]]_vars

\* The words of the starting_char bucket that satisfy the predicate.
C35_CandidateSet ==
    IF query.starting_char \in DOMAIN embeddings.map
    THEN {w \in DOMAIN embeddings.map[query.starting_char] : w \in query.PSet}
    ELSE {}

\* C35: get_similar_word returns Ok whenever the reference word is indexed
\* and some word of the starting_char bucket satisfies the predicate; with
\* an indexed reference it fails only when no word does.
C35_CandidateIsReturned ==
    (/\ query.fn = "get_similar_word"
     /\ query.done
     /\ is_valid_word(query.word, embeddings.map))
    => (query.result.ok <=> C35_CandidateSet # {})

(***************************************************************************)
(* SpecScore: a word-chain game with /skip, /score and /stop. The record   *)
(* in `query` is a history of the game: how many entries of the chain the  *)
(* player submitted, how many the bot chose, and the score last shown.     *)
(***************************************************************************)
NoShown == [some |-> FALSE, player |-> 0, bot |-> 0]

\* show_score and the summary of Command::Stop: the two counts of the
\* message.
show_score(chain) ==
    [some |-> TRUE,
     player |-> Len(chain) \div 2,
     bot |-> Len(chain) - Len(chain) \div 2]

\* The history after a handler run of kind op took the chain from old_chain
\* to that of new_state: a game start puts the bot's start word, a word
\* submission that grew the chain put one entry of the player, every other
\* new entry is the bot's.
Submitted(q, op, old_chain, new_state) ==
    LET new_chain == ChainOf(new_state)
        grown == Len(new_chain) - Len(old_chain)
        mine == IF op = "word" /\ grown > 0 THEN 1 ELSE 0
    IN  IF new_state.tag = "Start" THEN [q EXCEPT !.shown = NoShown]
        ELSE IF op = "select"
        THEN [fn |-> "score", player |-> 0, bot |-> Len(new_chain),
              shown |-> NoShown]
        ELSE [fn |-> "score", player |-> q.player + mine,
              bot |-> q.bot + grown - mine, shown |-> NoShown]

InitScore ==
    /\ state = [c \in Chats |-> Start]
    /\ cache = <<>>
    /\ embeddings = NotLoaded
    /\ last = NoLast
    /\ tasks = NoTasks
    /\ query = [fn |-> "score", player |-> 0, bot |-> 0, shown |-> NoShown]
    /\ disk = Missing
    /\ process = "running"

\* One run of a handler whose outcomes are `outs`, with the history.
ScoreHandle(c, op, outs) ==
    /\ process = "running"
    /\ \E out \in outs :
          /\ state' = dialogue_update(state, c, out.state)
          /\ cache' = out.cache
          /\ last' = [op |-> op, chat |-> c, outcome |-> out.outcome,
                      bot |-> out.bot]
          /\ query' = Submitted(query, op, ChainOf(state[c]), out.state)
    /\ embeddings' = get_embeddings(embeddings, EmbeddingsFile)
    /\ UNCHANGED <<tasks, disk, process>>

ScoreSelect(c) ==
    ScoreHandle(c, "select",
                start_game("word_chain", <<None>>, state[c], cache, Map))

ScorePlayerWord(c, text) ==
    /\ InGame(c)
    /\ Room(c)
    /\ ScoreHandle(c, "word", process_player_word(text, state[c], cache, Map))

ScoreSkip(c) ==
    /\ InGame(c)
    /\ Room(c)
    /\ ScoreHandle(c, "skip", skip_turn(state[c], cache, Map))

\* Command::Score: show_score, no dialogue.update.
ScoreShow(c) ==
    /\ process = "running"
    /\ InGame(c)
    /\ query' = [query EXCEPT !.shown = show_score(ChainOf(state[c]))]
    /\ last' = [op |-> "score", chat |-> c, outcome |-> "replied",
                bot |-> NoBot]
    /\ UNCHANGED <<state, cache, embeddings, tasks, disk, process>>

\* Command::Stop: the final score, then dialogue.update(Start).
ScoreStop(c) ==
    /\ process = "running"
    /\ InGame(c)
    /\ query' = [query EXCEPT !.shown = show_score(ChainOf(state[c]))]
    /\ state' = dialogue_update(state, c, on_stop(state[c]))
    /\ last' = [op |-> "stop", chat |-> c, outcome |-> "stopped",
                bot |-> NoBot]
    /\ UNCHANGED <<cache, embeddings, tasks, disk, process>>

NextScore ==
    \/ \E c \in Chats : ScoreSelect(c)
    \/ \E c \in Chats, text \in Texts : ScorePlayerWord(c, text)
    \/ \E c \in Chats : ScoreSkip(c)
    \/ \E c \in Chats : ScoreShow(c)
    \/ \E c \in Chats : ScoreStop(c)

SpecScore == InitScore /\ [][NextScore]_vars

\* C36: the score shown by /score and by /stop gives as the player's count
\* the number of chain entries the player submitted and as the bot's count
\* the number of entries the bot chose.
C36_ScoreCountsSubmissions ==
    query.shown.some =>
        /\ query.shown.player = query.player
        /\ query.shown.bot = query.bot

\* In an active game a handler run for /hint or for one of the commands
\* that are only answered (/score, /rules, /start, /play, /stats) leaves
\* the session state of its chat as it is.
C37_CommandsKeepState ==
    \A c \in Chats :
        (/\ state[c].tag # "Start"
         /\ last'.op \in {"hint", "command"}
         /\ last'.chat = c)
        => state'[c] = state[c]

Displayable(key, info) == info.word = key /\ Len(info.defs) >= 1

\* The words a handler can pass to get_word_details.
LookupKeys == AllKeys(Map) \cup {t[1] : t \in Texts \ {<<>>}}

\* C38: every WordInfo that get_word_details returns Ok and every entry it
\* inserts into the cache has at least one definition record and its word
\* field equal to the looked-up key, so definition index 0 of an accepted
\* word exists: for every key on the cache of every reachable state, and
\* for every entry of every chain.
C38_WordInfoHasDefinitions ==
    /\ \A key \in LookupKeys :
          \A r \in get_word_details(key, cache, Map) :
              /\ r.res.ok => Displayable(key, r.res.v)
              /\ \A k \in DOMAIN r.cache : Displayable(k, r.cache[k])
    /\ \A c \in Chats :
          \A i \in 1..Len(ChainOf(state[c])) :
              Displayable(ChainOf(state[c])[i].word, ChainOf(state[c])[i])

\* A player's word was accepted on the entry that init_cache loaded, which
\* the cache still holds.
C38_Witness ==
    /\ last.op = "word"
    /\ last.bot.called
    /\ last.bot.player_word = w_ca
    /\ w_ca \in DOMAIN cache

====
